---- MODULE Spec2Model ----
(***************************************************************************)
(* Model of the RechnungsAPI JavaScript/TypeScript client (src/index.ts):  *)
(* the ApiError class, the queryParamsToString helper and the Client       *)
(* class, whose every method is one fetch() exchange.                      *)
(*                                                                         *)
(* Text is modelled as a sequence of atoms (Str): an atom is either one    *)
(* character that matters to URL or JSON syntax ("?", "&", "=", " ", ...)  *)
(* or a chunk of characters that do not.  A template literal is the        *)
(* concatenation \o of its parts.                                          *)
(***************************************************************************)
EXTENDS Integers, Sequences, FiniteSets, TLC

VARIABLES clients, ctor, calls, qIn, qOut, service

vars == <<clients, ctor, calls, qIn, qOut, service>>

(***************************************************************************)
(* Bounds.                                                                 *)
(***************************************************************************)
\* Number of Client objects the program constructs.
NumClients == 2
\* Number of calls that may be in flight at once in SpecConc.
MaxCalls == 2

ClientIds == 1..NumClients
CallIds == 1..MaxCalls

(***************************************************************************)
(* JavaScript values: null, undefined, a number, a string or a plain       *)
(* object (its own enumerable entries, in insertion order).                *)
(***************************************************************************)
JNull == [t |-> "null", n |-> 0, s |-> <<>>, e |-> <<>>]
JUndefined == [t |-> "undefined", n |-> 0, s |-> <<>>, e |-> <<>>]
JNum(n) == [t |-> "num", n |-> n, s |-> <<>>, e |-> <<>>]
JStr(s) == [t |-> "str", n |-> 0, s |-> s, e |-> <<>>]
JObj(e) == [t |-> "obj", n |-> 0, s |-> <<>>, e |-> e]

\* value.toString() of a number or a string.
ValueToString(v) == IF v.t = "num" THEN <<ToString(v.n)>> ELSE v.s

(***************************************************************************)
(* URLSearchParams.toString(): the application/x-www-form-urlencoded       *)
(* serializer.  Alphanumerics and * - . _ are kept, a space becomes "+",   *)
(* every other character is percent-encoded.                               *)
(***************************************************************************)
FormEncodeAtom(a) ==
    CASE a = " " -> "+"
      [] a = "&" -> "%26"
      [] a = "=" -> "%3D"
      [] a = "+" -> "%2B"
      [] a = "?" -> "%3F"
      [] a = "/" -> "%2F"
      [] a = ":" -> "%3A"
      [] OTHER -> a

FormEncode(s) == [i \in 1..Len(s) |-> FormEncodeAtom(s[i])]

RECURSIVE FormSerialize(_)
FormSerialize(pairs) ==
    IF pairs = <<>> THEN <<>>
    ELSE LET p == Head(pairs)
             one == FormEncode(<<p[1]>>) \o <<"=">> \o FormEncode(p[2])
         IN IF Len(pairs) = 1 THEN one
            ELSE one \o <<"&">> \o FormSerialize(Tail(pairs))

(***************************************************************************)
(* queryParamsToString (src/index.ts:30-42).  The result is threw = TRUE   *)
(* when the function throws (value.toString() on undefined is a            *)
(* TypeError), otherwise the query string s.                               *)
(***************************************************************************)
\* Mutant of QueryEntry: a null value is sent as the text "null".
QueryEntryKeepsNull(entry) ==
    <<  <<entry[1], IF entry[2] = JNull THEN <<"null">> ELSE ValueToString(entry[2])>>  >>

\* The flatMap callback: [] for null, [[key, value.toString()]] otherwise.
QueryEntry(entry) ==
    IF entry[2] = JNull THEN <<>>
    ELSE <<  <<entry[1], ValueToString(entry[2])>>  >>

RECURSIVE FlatMapEntries(_)
FlatMapEntries(entries) ==
    IF entries = <<>> THEN <<>>
    ELSE QueryEntry(Head(entries)) \o FlatMapEntries(Tail(entries))

\* value.toString() throws for a value that is undefined.
ToStringThrows(entries) ==
    \E i \in 1..Len(entries) : entries[i][2] = JUndefined

queryParamsToString(params) ==
    IF params = JUndefined THEN [threw |-> FALSE, s |-> <<>>]
    ELSE IF ToStringThrows(params.e) THEN [threw |-> TRUE, s |-> <<>>]
    ELSE [threw |-> FALSE, s |-> FormSerialize(FlatMapEntries(params.e))]

(***************************************************************************)
(* JSON.stringify of a value, and JSON.parse of a text.  JSON.stringify    *)
(* leaves out the members of an object whose value is undefined.           *)
(* JSON.parse is the inverse of JSON.stringify on the texts of             *)
(* JsonCatalogue and throws a SyntaxError on any other text.               *)
(***************************************************************************)
RECURSIVE JSONstringify(_), JSONmembers(_)
JSONstringify(v) ==
    CASE v.t = "null" -> <<"null">>
      [] v.t = "num" -> <<ToString(v.n)>>
      [] v.t = "str" -> <<"\"">> \o v.s \o <<"\"">>
      [] OTHER -> <<"{">> \o JSONmembers(v.e) \o <<"}">>

JSONmembers(entries) ==
    IF entries = <<>> THEN <<>>
    ELSE LET m == Head(entries)
             rest == JSONmembers(Tail(entries))
         IN IF m[2] = JUndefined THEN rest
            ELSE <<"\"", m[1], "\"", ":">> \o JSONstringify(m[2])
                 \o (IF rest = <<>> THEN <<>> ELSE <<",">> \o rest)

\* Request and response payloads (the generated types carry no behaviour).
DocumentRequest ==
    JObj(<< <<"type", JStr(<<"invoice">>)>>, <<"number", JStr(<<"RE-1012">>)>> >>)
AccountRequest ==
    JObj(<< <<"number", JStr(<<"1800">>)>>, <<"type", JStr(<<"assets">>)>>,
            <<"name", JStr(<<"Bank">>)>> >>)
TransactionRequest ==
    JObj(<< <<"accountingDate", JStr(<<"2025", "-", "08", "-", "02">>)>>,
            <<"description", JStr(<<"Invoice", " ", "RE-100">>)>> >>)
\* The argument of createLedger in the README's usage example.
CustomDataArg ==
    JObj(<< <<"customData", JObj(<< <<"internalId", JStr(<<"project-alpha">>)>> >>)>> >>)
\* What the service answers with: a record carrying a number.
Numbered(n) == JObj(<< <<"number", JNum(n)>> >>)
ErrorBody == JObj(<< <<"error", JStr(<<"not_found">>)>> >>)

\* The ledgers of the service, by id, and the Ledger record it answers with.
LedgerIds == {"L1", "L2"}
Ledger(id) == JObj(<< <<"id", JStr(<<id>>)>> >>)

JsonCatalogue ==
    {JNull, JObj(<<>>), DocumentRequest, AccountRequest, TransactionRequest,
     CustomDataArg, ErrorBody} \cup {Numbered(n) : n \in 1..3}
        \cup {Ledger(id) : id \in LedgerIds}

JSONparse(text) ==
    IF \E v \in JsonCatalogue : JSONstringify(v) = text
    THEN [threw |-> FALSE, v |-> CHOOSE v \in JsonCatalogue : JSONstringify(v) = text]
    ELSE [threw |-> TRUE, v |-> JUndefined]

(***************************************************************************)
(* The Client class (src/index.ts:49-69): its two private fields, its      *)
(* constructor and its headers getter.                                     *)
(***************************************************************************)
DefaultBaseUrl == <<"https://www.rechnungs-api.de/api/v1">>

NoClient == [constructed |-> FALSE, apiKey |-> <<>>, baseUrl |-> <<>>]
NoCtor == [apiKey |-> <<>>, baseUrl |-> JUndefined]

\* Mutant of NullishDefault: the caller's override is dropped.
AlwaysDefault(baseUrl) == DefaultBaseUrl

\* baseUrl ?? "https://www.rechnungs-api.de/api/v1"
NullishDefault(baseUrl) ==
    IF baseUrl = JUndefined \/ baseUrl = JNull THEN DefaultBaseUrl ELSE baseUrl.s

constructor(k, apiKey, baseUrl) ==
    /\ ~clients[k].constructed
    /\ clients' = [clients EXCEPT ![k] =
                      [constructed |-> TRUE, apiKey |-> apiKey,
                       baseUrl |-> NullishDefault(baseUrl)]]
    /\ ctor' = [ctor EXCEPT ![k] = [apiKey |-> apiKey, baseUrl |-> baseUrl]]
    /\ UNCHANGED <<calls, qIn, qOut, service>>

\* Mutant of headers: the key is kept in one place shared by all clients.
headersOfFirstClient(k) ==
    [Authorization |-> <<"ApiKey", " ">> \o clients[1].apiKey,
     ContentType |-> "application/json"]

headers(k) ==
    [Authorization |-> <<"ApiKey", " ">> \o clients[k].apiKey,
     ContentType |-> "application/json"]

(***************************************************************************)
(* fetch(url, init): the request that goes out.  An init without a method  *)
(* is a GET; an init without a body sends none.                            *)
(***************************************************************************)
NoBody == [present |-> FALSE, text |-> <<>>]
Body(text) == [present |-> TRUE, text |-> text]

fetch(url, method, hdrs, body) ==
    [method |-> IF method = "" THEN "GET" ELSE method,
     url |-> url, headers |-> hdrs, body |-> body]

\* response.ok
Ok(response) == response.status \in 200..299

(***************************************************************************)
(* A call of a Client method.  pc is the await the call is suspended at:   *)
(* "fetch" (await fetch(...)), "body" (await response.json(), .text() or   *)
(* .arrayBuffer()), or "done" (the promise the method returned has         *)
(* settled with outcome).  sent lists the requests the call has issued.    *)
(***************************************************************************)
NoArgs == [id |-> <<>>, format |-> "", params |-> JUndefined, obj |-> JUndefined,
           number |-> 0]
NoResponse == [status |-> 0, contentType |-> "", body |-> <<>>, read |-> FALSE]
NoOutcome == [kind |-> "none", type |-> "", status |-> 0, json |-> JUndefined,
              data |-> <<>>]
IdleCall == [pc |-> "idle", client |-> 0, op |-> "", args |-> NoArgs, sent |-> <<>>,
             response |-> NoResponse, outcome |-> NoOutcome]

Return(type, json, data) ==
    [kind |-> "return", type |-> type, status |-> 0, json |-> json, data |-> data]
Throw(type) ==
    [kind |-> "throw", type |-> type, status |-> 0, json |-> JUndefined, data |-> <<>>]
\* new ApiError(status, body)
ApiError(status, body) ==
    [kind |-> "throw", type |-> "ApiError", status |-> status, json |-> body,
     data |-> <<>>]

\* The caller may call a method of client k as call c.
Callable(c, k) == clients[k].constructed /\ calls[c].pc = "idle"

\* The method has run up to its await fetch(url, init): one request is out.
Awaiting(c, k, op, args, request) ==
    [calls EXCEPT ![c] =
        [pc |-> "fetch", client |-> k, op |-> op, args |-> args,
         sent |-> <<request>>, response |-> NoResponse, outcome |-> NoOutcome]]

\* The method has thrown while it evaluated the arguments of fetch: the
\* promise it returned is rejected and fetch was never called.
Rejected(c, k, op, args, error) ==
    [calls EXCEPT ![c] =
        [pc |-> "done", client |-> k, op |-> op, args |-> args,
         sent |-> <<>>, response |-> NoResponse, outcome |-> Throw(error)]]

\* A GET of `${this.baseUrl}<path>?${queryParamsToString(queryParams)}`.
AwaitingList(c, k, op, args, path) ==
    LET q == queryParamsToString(args.params)
    IN IF q.threw THEN Rejected(c, k, op, args, "TypeError")
       ELSE Awaiting(c, k, op, args,
                     fetch(clients[k].baseUrl \o path \o <<"?">> \o q.s, "",
                           headers(k), NoBody))

(***************************************************************************)
(* The methods of Client, each up to its await fetch(...).                 *)
(***************************************************************************)
createDocument(c, k, document) ==
    /\ Callable(c, k)
    /\ calls' = Awaiting(c, k, "createDocument", [NoArgs EXCEPT !.obj = document],
                    fetch(clients[k].baseUrl \o <<"/", "documents">>, "POST",
                          headers(k), Body(JSONstringify(document))))
    /\ UNCHANGED <<clients, ctor, qIn, qOut, service>>

\* format: "json" | "xml" | "pdf" = "json"
DefaultFormat(format) == IF format = "undefined" THEN "json" ELSE format

readDocument(c, k, id, format) ==
    /\ Callable(c, k)
    /\ calls' = Awaiting(c, k, "readDocument",
                    [NoArgs EXCEPT !.id = id, !.format = format],
                    fetch(clients[k].baseUrl \o <<"/", "documents", "/">> \o id
                              \o <<"?", "format", "=", DefaultFormat(format)>>,
                          "", headers(k), NoBody))
    /\ UNCHANGED <<clients, ctor, qIn, qOut, service>>

listLedgers(c, k, queryParams) ==
    /\ Callable(c, k)
    /\ calls' = AwaitingList(c, k, "listLedgers",
                    [NoArgs EXCEPT !.params = queryParams], <<"/", "ledgers">>)
    /\ UNCHANGED <<clients, ctor, qIn, qOut, service>>

\* Mutant of createLedger: the argument is sent as the body.
createLedgerSendsArgument(c, k, passed) ==
    /\ Callable(c, k)
    /\ calls' = Awaiting(c, k, "createLedger", [NoArgs EXCEPT !.obj = passed],
                    fetch(clients[k].baseUrl \o <<"/", "ledgers">>, "POST",
                          headers(k), Body(JSONstringify(passed))))
    /\ UNCHANGED <<clients, ctor, qIn, qOut, service>>

\* createLedger() declares no parameter: what the caller passes is ignored.
createLedger(c, k, passed) ==
    /\ Callable(c, k)
    /\ calls' = Awaiting(c, k, "createLedger", [NoArgs EXCEPT !.obj = passed],
                    fetch(clients[k].baseUrl \o <<"/", "ledgers">>, "POST",
                          headers(k), Body(JSONstringify(JObj(<<>>)))))
    /\ UNCHANGED <<clients, ctor, qIn, qOut, service>>

deleteLedger(c, k, ledgerId) ==
    /\ Callable(c, k)
    /\ calls' = Awaiting(c, k, "deleteLedger", [NoArgs EXCEPT !.id = ledgerId],
                    fetch(clients[k].baseUrl \o <<"/", "ledgers", "/">> \o ledgerId,
                          "DELETE", headers(k), NoBody))
    /\ UNCHANGED <<clients, ctor, qIn, qOut, service>>

listLedgerAccounts(c, k, ledgerId, queryParams) ==
    /\ Callable(c, k)
    /\ calls' = AwaitingList(c, k, "listLedgerAccounts",
                    [NoArgs EXCEPT !.id = ledgerId, !.params = queryParams],
                    <<"/", "ledgers", "/">> \o ledgerId \o <<"/", "accounts">>)
    /\ UNCHANGED <<clients, ctor, qIn, qOut, service>>

createLedgerAccount(c, k, ledgerId, account) ==
    /\ Callable(c, k)
    /\ calls' = Awaiting(c, k, "createLedgerAccount",
                    [NoArgs EXCEPT !.id = ledgerId, !.obj = account],
                    fetch(clients[k].baseUrl \o <<"/", "ledgers", "/">> \o ledgerId
                              \o <<"/", "accounts">>,
                          "POST", headers(k), Body(JSONstringify(account))))
    /\ UNCHANGED <<clients, ctor, qIn, qOut, service>>

listLedgerTransactions(c, k, ledgerId, queryParams) ==
    /\ Callable(c, k)
    /\ calls' = AwaitingList(c, k, "listLedgerTransactions",
                    [NoArgs EXCEPT !.id = ledgerId, !.params = queryParams],
                    <<"/", "ledgers", "/">> \o ledgerId \o <<"/", "transactions">>)
    /\ UNCHANGED <<clients, ctor, qIn, qOut, service>>

createLedgerTransaction(c, k, ledgerId, transaction) ==
    /\ Callable(c, k)
    /\ calls' = Awaiting(c, k, "createLedgerTransaction",
                    [NoArgs EXCEPT !.id = ledgerId, !.obj = transaction],
                    fetch(clients[k].baseUrl \o <<"/", "ledgers", "/">> \o ledgerId
                              \o <<"/", "transactions">>,
                          "POST", headers(k), Body(JSONstringify(transaction))))
    /\ UNCHANGED <<clients, ctor, qIn, qOut, service>>

\* Mutant of archiveLedgerTransaction: the reversal is requested with POST.
archiveWithPost(c, k, ledgerId, transactionNumber) ==
    /\ Callable(c, k)
    /\ calls' = Awaiting(c, k, "archiveLedgerTransaction",
                    [NoArgs EXCEPT !.id = ledgerId, !.number = transactionNumber],
                    fetch(clients[k].baseUrl \o <<"/", "ledgers", "/">> \o ledgerId
                              \o <<"/", "transactions", "/",
                                   ToString(transactionNumber)>>,
                          "POST", headers(k), NoBody))
    /\ UNCHANGED <<clients, ctor, qIn, qOut, service>>

\* Mutant of archiveLedgerTransaction: the DELETE goes to the ledger itself.
archiveOnLedgerUrl(c, k, ledgerId, transactionNumber) ==
    /\ Callable(c, k)
    /\ calls' = Awaiting(c, k, "archiveLedgerTransaction",
                    [NoArgs EXCEPT !.id = ledgerId, !.number = transactionNumber],
                    fetch(clients[k].baseUrl \o <<"/", "ledgers", "/">> \o ledgerId,
                          "DELETE", headers(k), NoBody))
    /\ UNCHANGED <<clients, ctor, qIn, qOut, service>>

archiveLedgerTransaction(c, k, ledgerId, transactionNumber) ==
    /\ Callable(c, k)
    /\ calls' = Awaiting(c, k, "archiveLedgerTransaction",
                    [NoArgs EXCEPT !.id = ledgerId, !.number = transactionNumber],
                    fetch(clients[k].baseUrl \o <<"/", "ledgers", "/">> \o ledgerId
                              \o <<"/", "transactions", "/",
                                   ToString(transactionNumber)>>,
                          "DELETE", headers(k), NoBody))
    /\ UNCHANGED <<clients, ctor, qIn, qOut, service>>

listLedgerBalances(c, k, ledgerId, queryParams) ==
    /\ Callable(c, k)
    /\ calls' = AwaitingList(c, k, "listLedgerBalances",
                    [NoArgs EXCEPT !.id = ledgerId, !.params = queryParams],
                    <<"/", "ledgers", "/">> \o ledgerId \o <<"/", "balances">>)
    /\ UNCHANGED <<clients, ctor, qIn, qOut, service>>

(***************************************************************************)
(* The rest of every method, after its await fetch(...).                   *)
(***************************************************************************)
\* Mutant of fromResponse: the body is wrapped as text, not parsed.
fromResponseRawBody(response) == ApiError(response.status, JStr(response.body))

\* Mutant of fromResponse: a body that does not parse is wrapped as text.
fromResponseFallsBackToText(response) ==
    LET parsed == JSONparse(response.body)
    IN ApiError(response.status,
                IF parsed.threw THEN JStr(response.body) ELSE parsed.v)

\* ApiError.fromResponse: new ApiError(response.status, await response.json());
\* when response.json() rejects, so does fromResponse, with the SyntaxError.
fromResponse(response) ==
    LET parsed == JSONparse(response.body)
    IN IF parsed.threw THEN Throw("SyntaxError")
       ELSE ApiError(response.status, parsed.v)

\* return (await response.json()) as T
ReturnJson(response) ==
    LET parsed == JSONparse(response.body)
    IN IF parsed.threw THEN Throw("SyntaxError")
       ELSE Return("json", parsed.v, <<>>)

\* Mutant of DecodeDocument: the decoding follows the Content-Type header.
DecodeBySniffing(format, response) ==
    IF response.contentType = "application/json" THEN ReturnJson(response)
    ELSE Return("arrayBuffer", JUndefined, response.body)

\* The three returns of readDocument (src/index.ts:111-113).
DecodeDocument(format, response) ==
    IF format = "xml" THEN Return("text", JUndefined, response.body)
    ELSE IF format = "pdf" THEN Return("arrayBuffer", JUndefined, response.body)
    ELSE ReturnJson(response)

\* if (!response.ok) throw await ApiError.fromResponse(response); return ...
Settle(op, args, response) ==
    IF ~Ok(response) THEN fromResponse(response)
    ELSE IF op = "readDocument"
         THEN DecodeDocument(DefaultFormat(args.format), response)
    ELSE ReturnJson(response)

\* fetch resolves: the status line and the headers of the response are in.
FetchResolve(c, status, contentType) ==
    /\ calls[c].pc = "fetch"
    /\ calls' = [calls EXCEPT ![c].pc = "body",
                              ![c].response = [status |-> status,
                                               contentType |-> contentType,
                                               body |-> <<>>, read |-> FALSE]]
    /\ UNCHANGED <<clients, ctor, qIn, qOut, service>>

\* fetch rejects (no connection, DNS failure, ...): the method rethrows.
FetchReject(c) ==
    /\ calls[c].pc = "fetch"
    /\ calls' = [calls EXCEPT ![c].pc = "done",
                              ![c].outcome = Throw("NetworkError")]
    /\ UNCHANGED <<clients, ctor, qIn, qOut, service>>

\* Mutant of BodyResolve: the response is kept in a field of the client that
\* concurrent calls overwrite, so a call settles on the latest response.
BodyResolveSharedResponse(c, body) ==
    /\ calls[c].pc = "body"
    /\ LET response == [calls[c].response EXCEPT !.body = body, !.read = TRUE]
           latest == CHOOSE d \in CallIds :
                        /\ calls[d].pc = "body"
                        /\ \A e \in CallIds : calls[e].pc = "body" => e <= d
           shared == [calls[latest].response EXCEPT !.body = body, !.read = TRUE]
       IN calls' = [calls EXCEPT ![c].pc = "done",
                                 ![c].response = response,
                                 ![c].outcome = Settle(calls[c].op, calls[c].args,
                                                       shared)]
    /\ UNCHANGED <<clients, ctor, qIn, qOut, service>>

\* The body has been read to its end: the method decodes it and settles.
BodyResolve(c, body) ==
    /\ calls[c].pc = "body"
    /\ LET response == [calls[c].response EXCEPT !.body = body, !.read = TRUE]
       IN calls' = [calls EXCEPT ![c].pc = "done",
                                 ![c].response = response,
                                 ![c].outcome = Settle(calls[c].op, calls[c].args,
                                                       response)]
    /\ UNCHANGED <<clients, ctor, qIn, qOut, service>>

\* Reading the body fails (the connection breaks): the method rethrows.
BodyReject(c) ==
    /\ calls[c].pc = "body"
    /\ calls' = [calls EXCEPT ![c].pc = "done",
                              ![c].outcome = Throw("NetworkError")]
    /\ UNCHANGED <<clients, ctor, qIn, qOut, service>>

\* The caller, resumed with the outcome, lets go of the settled promise.
Resume(c) ==
    /\ calls[c].pc = "done"
    /\ calls' = [calls EXCEPT ![c] = IdleCall]
    /\ UNCHANGED <<clients, ctor, qIn, qOut, service>>

(***************************************************************************)
(* What the callers pass and what the service answers.                     *)
(***************************************************************************)
ApiKeys == {<<"key-A">>, <<"key-B">>}
BaseUrlArgs == {JUndefined, JStr(<<"http://localhost:3000">>)}
Formats == {"undefined", "json", "xml", "pdf"}

Limit10 == <<"limit", JNum(10)>>
ListParams ==
    {JUndefined, JObj(<<>>),
     JObj(<<Limit10, <<"cursor", JNull>> >>),
     JObj(<<Limit10, <<"cursor", JUndefined>> >>),
     JObj(<<Limit10, <<"cursor", JStr(<<"YWJj", "=">>)>> >>)}
BalanceParams ==
    {JUndefined,
     JObj(<< <<"startDate", JUndefined>> >>),
     JObj(<< <<"startDate", JStr(<<"2025-01-01">>)>>,
             <<"endDate", JStr(<<"2025-12-31">>)>> >>)}

Statuses == {200, 404, 500}
ContentTypes == {"application/json", "application/pdf"}
Bodies == {JSONstringify(Numbered(1)), JSONstringify(Numbered(2)), <<"<html>">>}

\* The inputs of a sequential caller, and the smaller ones of concurrent callers.
FullInputs ==
    [ids |-> {<<"L1">>}, formats |-> Formats, listParams |-> ListParams,
     balanceParams |-> BalanceParams, documents |-> {DocumentRequest},
     ledgerArgs |-> {JUndefined, CustomDataArg}, accounts |-> {AccountRequest},
     transactions |-> {TransactionRequest}, numbers |-> {1, 2}]
ConcInputs ==
    [ids |-> {<<"L1">>}, formats |-> {"xml"},
     listParams |-> {JObj(<<Limit10>>)}, balanceParams |-> {JUndefined},
     documents |-> {DocumentRequest}, ledgerArgs |-> {JUndefined},
     accounts |-> {AccountRequest}, transactions |-> {TransactionRequest},
     numbers |-> {1}]

\* A caller calls one method of client k.
Invoke(c, k, I) ==
    \/ \E d \in I.documents : createDocument(c, k, d)
    \/ \E id \in I.ids, f \in I.formats : readDocument(c, k, id, f)
    \/ \E q \in I.listParams : listLedgers(c, k, q)
    \/ \E a \in I.ledgerArgs : createLedger(c, k, a)
    \/ \E id \in I.ids : deleteLedger(c, k, id)
    \/ \E id \in I.ids, q \in I.listParams : listLedgerAccounts(c, k, id, q)
    \/ \E id \in I.ids, a \in I.accounts : createLedgerAccount(c, k, id, a)
    \/ \E id \in I.ids, q \in I.listParams : listLedgerTransactions(c, k, id, q)
    \/ \E id \in I.ids, x \in I.transactions : createLedgerTransaction(c, k, id, x)
    \/ \E id \in I.ids, n \in I.numbers : archiveLedgerTransaction(c, k, id, n)
    \/ \E id \in I.ids, q \in I.balanceParams : listLedgerBalances(c, k, id, q)

\* The network and the service act on call c.
Network(c, statuses, contentTypes, bodies) ==
    \/ \E s \in statuses, ct \in contentTypes : FetchResolve(c, s, ct)
    \/ FetchReject(c)
    \/ \E b \in bodies : BodyResolve(c, b)
    \/ BodyReject(c)

Construct ==
    \E k \in ClientIds, key \in ApiKeys, base \in BaseUrlArgs : constructor(k, key, base)

(***************************************************************************)
(* Spec: clients are constructed and a caller awaits one call at a time.   *)
(***************************************************************************)
NotBuilt == [built |-> FALSE, threw |-> FALSE, s |-> <<>>]

\* The service before any request: no ledger, account or transaction, and
\* no response body on its way to a call.
NoService ==
    [ledgers |-> {}, accounts |-> {}, transactions |-> {},
     reply |-> [c \in CallIds |-> <<>>]]

Init ==
    /\ clients = [k \in ClientIds |-> NoClient]
    /\ ctor = [k \in ClientIds |-> NoCtor]
    /\ calls = [c \in CallIds |-> IdleCall]
    /\ qIn = JUndefined
    /\ qOut = NotBuilt
    /\ service = NoService

Next ==
    \/ Construct
    \/ \E k \in ClientIds : Invoke(1, k, FullInputs)
    \/ Network(1, Statuses, ContentTypes, Bodies)
    \/ Resume(1)

Spec == Init /\ [][Next]_vars

(***************************************************************************)
(* SpecConc: callers call one client without awaiting one another; the     *)
(* responses arrive in any order.                                          *)
(***************************************************************************)
NextConc ==
    \/ \E base \in BaseUrlArgs : constructor(1, <<"key-A">>, base)
    \/ \E c \in CallIds : Invoke(c, 1, ConcInputs)
    \/ \E c \in CallIds, s \in {200, 404} : FetchResolve(c, s, "application/json")
    \/ \E c \in CallIds : FetchReject(c)
    \/ \E c \in CallIds : BodyResolve(c, JSONstringify(Numbered(1)))
    \/ \E c \in CallIds : Resume(c)

SpecConc == Init /\ [][NextConc]_vars

(***************************************************************************)
(* SpecQuery: queryParamsToString applied to one parameter record.         *)
(***************************************************************************)
Absent == [t |-> "absent", n |-> 0, s |-> <<>>, e |-> <<>>]
Property(key, value) == IF value = Absent THEN <<>> ELSE << <<key, value>> >>

LimitValues == {Absent, JNull, JUndefined, JNum(10), JNum(25)}
CursorValues ==
    {Absent, JNull, JUndefined, JStr(<<"abc">>), JStr(<<"a", "&", "b">>),
     JStr(<<"a", " ", "b">>), JStr(<<"YWJj", "=">>)}
DateValues == {Absent, JNull, JStr(<<"2025-01-01">>)}

QueryInputs ==
    {JUndefined} \cup
    {JObj(Property("limit", l) \o Property("cursor", cu) \o Property("startDate", d)) :
        l \in LimitValues, cu \in CursorValues, d \in DateValues}

InitQuery ==
    /\ clients = [k \in ClientIds |-> NoClient]
    /\ ctor = [k \in ClientIds |-> NoCtor]
    /\ calls = [c \in CallIds |-> IdleCall]
    /\ qIn \in QueryInputs
    /\ qOut = NotBuilt
    /\ service = NoService

BuildQuery ==
    /\ ~qOut.built
    /\ qOut' = [built |-> TRUE, threw |-> queryParamsToString(qIn).threw,
                s |-> queryParamsToString(qIn).s]
    /\ UNCHANGED <<clients, ctor, calls, qIn, service>>

NextQuery == BuildQuery

SpecQuery == InitQuery /\ [][NextQuery]_vars

(***************************************************************************)
(* Helpers of the properties below.                                        *)
(***************************************************************************)
\* What a server reads out of a query string (the inverse of the
\* application/x-www-form-urlencoded serializer).
FormDecodeAtom(a) ==
    CASE a = "+" -> " "
      [] a = "%26" -> "&"
      [] a = "%3D" -> "="
      [] a = "%2B" -> "+"
      [] a = "%3F" -> "?"
      [] a = "%2F" -> "/"
      [] a = "%3A" -> ":"
      [] OTHER -> a

FormDecode(s) == [i \in 1..Len(s) |-> FormDecodeAtom(s[i])]

\* The index of the first atom of s that is sep, 0 when there is none.
IndexOf(s, sep) ==
    IF \E i \in 1..Len(s) : s[i] = sep
    THEN CHOOSE i \in 1..Len(s) : s[i] = sep /\ \A j \in 1..(i - 1) : s[j] # sep
    ELSE 0

RECURSIVE Split(_, _)
Split(s, sep) ==
    LET i == IndexOf(s, sep)
    IN IF i = 0 THEN <<s>>
       ELSE <<SubSeq(s, 1, i - 1)>> \o Split(SubSeq(s, i + 1, Len(s)), sep)

FormParsePair(segment) ==
    LET i == IndexOf(segment, "=")
    IN IF i = 0 THEN <<FormDecode(segment), <<>> >>
       ELSE <<FormDecode(SubSeq(segment, 1, i - 1)),
              FormDecode(SubSeq(segment, i + 1, Len(segment)))>>

FormParse(s) ==
    IF s = <<>> THEN <<>>
    ELSE LET segments == Split(s, "&")
         IN [i \in 1..Len(segments) |-> FormParsePair(segments[i])]

\* The entries of a parameter record that carry a value, as name and text.
PresentEntries(params) ==
    IF params = JUndefined THEN <<>>
    ELSE LET present == SelectSeq(params.e,
                            LAMBDA en : en[2] # JNull /\ en[2] # JUndefined)
         IN [i \in 1..Len(present) |->
                <<  <<present[i][1]>>,
                    IF present[i][2].t = "num" THEN <<ToString(present[i][2].n)>>
                    ELSE present[i][2].s  >>]

\* object[key] of a plain object; undefined when there is no such key.
JGet(v, key) ==
    IF \E i \in 1..Len(v.e) : v.e[i][1] = key
    THEN v.e[CHOOSE i \in 1..Len(v.e) : v.e[i][1] = key][2]
    ELSE JUndefined

HasUndefinedValue(params) ==
    params # JUndefined /\ \E i \in 1..Len(params.e) : params.e[i][2] = JUndefined

Atoms(s) == {s[i] : i \in 1..Len(s)}

LimitAndNullCursor == JObj(<<Limit10, <<"cursor", JNull>> >>)

(***************************************************************************)
(* C3: queryParamsToString applied to a parameter record whose values are  *)
(* strings, numbers or null emits exactly the keys whose value is not      *)
(* null, each with its stringified value: {limit: 10, cursor: null} gives  *)
(* "limit=10" (no cursor, never the text "null"), and {} and undefined     *)
(* give the empty string.                                                  *)
(***************************************************************************)
C3_QueryStringOmitsNull ==
    (qOut.built /\ ~HasUndefinedValue(qIn)) =>
        /\ ~qOut.threw
        /\ FormParse(qOut.s) = PresentEntries(qIn)
        /\ (qIn = LimitAndNullCursor =>
                /\ qOut.s = <<"limit", "=", "10">>
                /\ Atoms(qOut.s) \cap {"cursor", "null"} = {})
        /\ (qIn = JObj(<<>>) => qOut.s = <<>>)
        /\ (qIn = JUndefined => qOut.s = <<>>)

C3_Witness ==
    /\ qOut.built
    /\ qIn = LimitAndNullCursor
    /\ qOut.s = <<"limit", "=", "10">>

(***************************************************************************)
(* C4: for every list call taking optional parameters, a key present with  *)
(* the value undefined is left out of the query string like a null one,    *)
(* and the call still issues its request and completes normally.           *)
(***************************************************************************)
ListOps ==
    {"listLedgers", "listLedgerAccounts", "listLedgerTransactions",
     "listLedgerBalances"}

\* The query string of a request: what follows the first "?" of its URL.
QueryOf(url) ==
    LET i == IndexOf(url, "?")
    IN IF i = 0 THEN <<>> ELSE SubSeq(url, i + 1, Len(url))

C4_UndefinedOmittedLikeNull ==
    \A c \in CallIds :
        (/\ calls[c].pc # "idle"
         /\ calls[c].op \in ListOps
         /\ HasUndefinedValue(calls[c].args.params)) =>
            /\ Len(calls[c].sent) = 1
            /\ FormParse(QueryOf(calls[c].sent[1].url))
                   = PresentEntries(calls[c].args.params)
            /\ calls[c].outcome.type # "TypeError"

(***************************************************************************)
(* The service's endpoints (the table of the interface description) and    *)
(* what a caller observes of a call.                                       *)
(***************************************************************************)
\* The configuration a client was constructed with.
ConfiguredKey(k) == ctor[k].apiKey
ConfiguredBase(k) ==
    IF ctor[k].baseUrl = JUndefined THEN <<"https://www.rechnungs-api.de/api/v1">>
    ELSE ctor[k].baseUrl.s

EndpointMethod(op) ==
    CASE op \in {"createDocument", "createLedger", "createLedgerAccount",
                 "createLedgerTransaction"} -> "POST"
      [] op \in {"deleteLedger", "archiveLedgerTransaction"} -> "DELETE"
      [] OTHER -> "GET"

EndpointPath(op, args) ==
    CASE op = "createDocument" -> <<"/", "documents">>
      [] op = "readDocument" -> <<"/", "documents", "/">> \o args.id
      [] op \in {"listLedgers", "createLedger"} -> <<"/", "ledgers">>
      [] op = "deleteLedger" -> <<"/", "ledgers", "/">> \o args.id
      [] op \in {"listLedgerAccounts", "createLedgerAccount"} ->
            <<"/", "ledgers", "/">> \o args.id \o <<"/", "accounts">>
      [] op \in {"listLedgerTransactions", "createLedgerTransaction"} ->
            <<"/", "ledgers", "/">> \o args.id \o <<"/", "transactions">>
      [] op = "archiveLedgerTransaction" ->
            <<"/", "ledgers", "/">> \o args.id
                \o <<"/", "transactions", "/", ToString(args.number)>>
      [] OTHER -> <<"/", "ledgers", "/">> \o args.id \o <<"/", "balances">>

\* The part of a URL before its first "?".
PathOf(url) ==
    LET i == IndexOf(url, "?")
    IN IF i = 0 THEN url ELSE SubSeq(url, 1, i - 1)

Started(c) == calls[c].pc # "idle"
Done(c) == calls[c].pc = "done"
\* Call c has read a response to its end.
Answered(c) == Done(c) /\ calls[c].response.read
Is2xx(status) == status >= 200 /\ status <= 299
ValidJson(text) == ~JSONparse(text).threw

(***************************************************************************)
(* C1 (as amended): for every Client method and every response whose       *)
(* status is outside the 2xx range and whose body is valid JSON, the call  *)
(* ends by raising an ApiError whose status is the HTTP status code and    *)
(* whose body is the parsed JSON body; it never returns a value.           *)
(***************************************************************************)
C1_ApiErrorOnJsonErrorBody ==
    \A c \in CallIds :
        (/\ Answered(c)
         /\ ~Is2xx(calls[c].response.status)
         /\ ValidJson(calls[c].response.body)) =>
            /\ calls[c].outcome.kind = "throw"
            /\ calls[c].outcome.type = "ApiError"
            /\ calls[c].outcome.status = calls[c].response.status
            /\ calls[c].outcome.json = JSONparse(calls[c].response.body).v

C1_Witness ==
    \E c \in CallIds :
        /\ Answered(c)
        /\ calls[c].op = "readDocument"
        /\ calls[c].args.format = "pdf"
        /\ calls[c].response.status = 404
        /\ calls[c].outcome.type = "ApiError"
        /\ calls[c].outcome.status = 404
        /\ calls[c].outcome.json = Numbered(1)

\* C1 as stated: every response outside the 2xx range ends in an ApiError
\* carrying the status, whatever its body is.
C1_ApiErrorOnEveryNon2xx ==
    \A c \in CallIds :
        (Answered(c) /\ ~Is2xx(calls[c].response.status)) =>
            /\ calls[c].outcome.kind = "throw"
            /\ calls[c].outcome.type = "ApiError"
            /\ calls[c].outcome.status = calls[c].response.status

ArchiveRequestAndResult(c) ==
    /\ Started(c) =>
          /\ Len(calls[c].sent) = 1
          /\ calls[c].sent[1].method = "DELETE"
          /\ calls[c].sent[1].url =
                ConfiguredBase(calls[c].client) \o <<"/", "ledgers", "/">>
                    \o calls[c].args.id
                    \o <<"/", "transactions", "/", ToString(calls[c].args.number)>>
    /\ (/\ Answered(c)
        /\ Is2xx(calls[c].response.status)
        /\ ValidJson(calls[c].response.body)) =>
          /\ calls[c].outcome.kind = "return"
          /\ calls[c].outcome.json = JSONparse(calls[c].response.body).v

C6_AuthorizationHeader ==
    \A c \in CallIds :
        /\ calls[c].pc \in {"fetch", "body"} => Len(calls[c].sent) > 0
        /\ \A i \in 1..Len(calls[c].sent) :
              calls[c].sent[i].headers.Authorization
                  = <<"ApiKey", " ">> \o ConfiguredKey(calls[c].client)

\* Two clients with different keys, and a request of the second one.
C6_Witness ==
    /\ clients[1].constructed
    /\ clients[2].constructed
    /\ ConfiguredKey(1) = <<"key-A">>
    /\ ConfiguredKey(2) = <<"key-B">>
    /\ \E c \in CallIds :
          /\ calls[c].client = 2
          /\ Len(calls[c].sent) = 1
          /\ calls[c].sent[1].headers.Authorization = <<"ApiKey", " ", "key-B">>

(***************************************************************************)
(* C7: each operation maps to the endpoint of the table: a request it      *)
(* issues uses the listed HTTP method and the URL formed by the configured *)
(* base URL (the caller's override, otherwise the production default)      *)
(* followed by the listed path, and it issues no second one.               *)
(***************************************************************************)
C7_EndpointTable ==
    \A c \in CallIds :
        /\ Len(calls[c].sent) <= 1
        /\ \A i \in 1..Len(calls[c].sent) :
              /\ calls[c].sent[i].method = EndpointMethod(calls[c].op)
              /\ PathOf(calls[c].sent[i].url)
                    = ConfiguredBase(calls[c].client)
                          \o EndpointPath(calls[c].op, calls[c].args)

\* A request under an overriding base URL.
C7_Witness ==
    \E c \in CallIds :
        /\ calls[c].op = "listLedgerBalances"
        /\ ctor[calls[c].client].baseUrl = JStr(<<"http://localhost:3000">>)
        /\ Len(calls[c].sent) = 1
        /\ calls[c].sent[1].method = "GET"
        /\ PathOf(calls[c].sent[1].url)
              = <<"http://localhost:3000", "/", "ledgers", "/", "L1", "/", "balances">>

C9_ExactlyOneRequest ==
    \A c \in CallIds :
        /\ Len(calls[c].sent) <= 1
        /\ Done(c) =>
              /\ Len(calls[c].sent) = 1
              /\ calls[c].outcome.kind \in {"return", "throw"}

(***************************************************************************)
(* C10: for calls issued concurrently on one Client and any interleaving   *)
(* of their requests and responses, the client's apiKey and baseUrl stay   *)
(* equal to their construction-time values, and the request sent and the   *)
(* outcome of each call depend only on that call's own arguments, the      *)
(* configuration and that call's own response.                             *)
(***************************************************************************)
ExpectedBody(op, args) ==
    IF op \in {"createDocument", "createLedgerAccount", "createLedgerTransaction"}
    THEN [present |-> TRUE, text |-> JSONstringify(args.obj)]
    ELSE IF op = "createLedger" THEN [present |-> TRUE, text |-> <<"{", "}">>]
    ELSE [present |-> FALSE, text |-> <<>>]

ExpectedQuery(op, args) ==
    IF op = "readDocument"
    THEN << <<  <<"format">>,
                <<IF args.format = "undefined" THEN "json" ELSE args.format>>  >> >>
    ELSE IF op \in ListOps THEN PresentEntries(args.params)
    ELSE <<>>

ExpectedOutcome(op, args, response) ==
    IF ~Is2xx(response.status)
    THEN IF ValidJson(response.body)
         THEN [kind |-> "throw", type |-> "ApiError", status |-> response.status,
               json |-> JSONparse(response.body).v, data |-> <<>>]
         ELSE [kind |-> "throw", type |-> "SyntaxError", status |-> 0,
               json |-> JUndefined, data |-> <<>>]
    ELSE IF op = "readDocument" /\ args.format = "xml"
    THEN [kind |-> "return", type |-> "text", status |-> 0, json |-> JUndefined,
          data |-> response.body]
    ELSE IF op = "readDocument" /\ args.format = "pdf"
    THEN [kind |-> "return", type |-> "arrayBuffer", status |-> 0,
          json |-> JUndefined, data |-> response.body]
    ELSE IF ValidJson(response.body)
    THEN [kind |-> "return", type |-> "json", status |-> 0,
          json |-> JSONparse(response.body).v, data |-> <<>>]
    ELSE [kind |-> "throw", type |-> "SyntaxError", status |-> 0,
          json |-> JUndefined, data |-> <<>>]

OwnRequest(c) ==
    \A i \in 1..Len(calls[c].sent) :
        LET r == calls[c].sent[i]
        IN /\ r.method = EndpointMethod(calls[c].op)
           /\ PathOf(r.url) = ConfiguredBase(calls[c].client)
                                  \o EndpointPath(calls[c].op, calls[c].args)
           /\ FormParse(QueryOf(r.url)) = ExpectedQuery(calls[c].op, calls[c].args)
           /\ r.headers.Authorization
                 = <<"ApiKey", " ">> \o ConfiguredKey(calls[c].client)
           /\ r.body = ExpectedBody(calls[c].op, calls[c].args)

OwnOutcome(c) ==
    /\ Answered(c) =>
          calls[c].outcome
              = ExpectedOutcome(calls[c].op, calls[c].args, calls[c].response)
    /\ (Done(c) /\ ~calls[c].response.read) => calls[c].outcome.kind = "throw"
    /\ ~Done(c) => calls[c].outcome.kind = "none"

C10_CallsIndependent ==
    /\ \A k \in ClientIds :
          clients[k].constructed =>
              /\ clients[k].apiKey = ConfiguredKey(k)
              /\ clients[k].baseUrl = ConfiguredBase(k)
    /\ \A c \in CallIds : Started(c) => OwnRequest(c) /\ OwnOutcome(c)

\* Two calls overlap and are answered differently, the later one first.
C10_Witness ==
    \E c, d \in CallIds :
        /\ c > d
        /\ calls[c].client = calls[d].client
        /\ calls[c].op = "createLedger"
        /\ calls[d].op = "deleteLedger"
        /\ Answered(c)
        /\ calls[c].response.status = 200
        /\ calls[c].outcome.kind = "return"
        /\ calls[d].pc = "body"
        /\ calls[d].response.status = 404

(***************************************************************************)
(* C12: when a response is non-2xx and its body is not valid JSON, the     *)
(* call does not raise an ApiError: it ends with the JSON decoding         *)
(* failure, the error carries neither the HTTP status code nor the raw     *)
(* body, and no value is returned.                                         *)
(***************************************************************************)
C12_NonJsonErrorBodyIsSyntaxError ==
    \A c \in CallIds :
        (/\ Answered(c)
         /\ ~Is2xx(calls[c].response.status)
         /\ ~ValidJson(calls[c].response.body)) =>
            /\ calls[c].outcome.kind = "throw"
            /\ calls[c].outcome.type = "SyntaxError"
            /\ calls[c].outcome.status = 0
            /\ calls[c].outcome.json = JUndefined
            /\ calls[c].outcome.data = <<>>

C12_Witness ==
    \E c \in CallIds :
        /\ Answered(c)
        /\ calls[c].op = "createDocument"
        /\ calls[c].response.status = 500
        /\ calls[c].response.body = <<"<html>">>
        /\ calls[c].outcome.kind = "throw"
        /\ calls[c].outcome.type = "SyntaxError"

(***************************************************************************)
(* The ledger service behind the endpoints, as the doc comments of the     *)
(* methods describe it: what a request does to the ledgers, their accounts *)
(* and their transactions.  The service routes a request on its method and *)
(* on its path below the base URL.                                         *)
(***************************************************************************)
MaxTransactions == 2
TransactionNumbers == 1..MaxTransactions

\* The path of a request below the base URL, and the number an atom spells.
Route(request) == Tail(PathOf(request.url))
NumberOf(atom) ==
    IF \E n \in TransactionNumbers : ToString(n) = atom
    THEN CHOOSE n \in TransactionNumbers : ToString(n) = atom
    ELSE 0

Account(ledger, number) == [ledger |-> ledger, number |-> number]
Transaction(ledger, number, reverses) ==
    [ledger |-> ledger, number |-> number, reverses |-> reverses]
\* "a sequential number assigned by the service"
NextNumber(svc, ledger) ==
    Cardinality({x \in svc.transactions : x.ledger = ledger}) + 1

Answer(svc, status, json) ==
    [ledgers |-> svc.ledgers, accounts |-> svc.accounts,
     transactions |-> svc.transactions, status |-> status,
     body |-> JSONstringify(json)]

\* POST /ledgers: "Creates a new ledger."
ServeCreateLedger(svc, fresh) ==
    IF fresh \in svc.ledgers THEN Answer(svc, 500, ErrorBody)
    ELSE [Answer(svc, 200, Ledger(fresh)) EXCEPT !.ledgers = svc.ledgers \cup {fresh}]

\* DELETE /ledgers/{id}: "Deletes a given ledger together with all
\* associated accounts and transactions."
ServeDeleteLedger(svc, id) ==
    [Answer(svc, 200, Ledger(id)) EXCEPT
        !.ledgers = svc.ledgers \ {id},
        !.accounts = {a \in svc.accounts : a.ledger # id},
        !.transactions = {x \in svc.transactions : x.ledger # id}]

\* POST /ledgers/{id}/accounts: "Creates a new account on a given ledger."
ServeCreateAccount(svc, id, request) ==
    LET account == JSONparse(request.body.text)
        number == JGet(account.v, "number")
    IN IF account.threw \/ number.t # "str" THEN Answer(svc, 500, ErrorBody)
       ELSE [Answer(svc, 200, account.v) EXCEPT
                !.accounts = svc.accounts \cup {Account(id, number.s)}]

\* POST /ledgers/{id}/transactions: "Creates a new transaction on a given
\* ledger."
ServeCreateTransaction(svc, id, reverses) ==
    IF Cardinality(svc.transactions) >= MaxTransactions
    THEN Answer(svc, 500, ErrorBody)
    ELSE LET n == NextNumber(svc, id)
         IN [Answer(svc, 200, Numbered(n)) EXCEPT
                !.transactions = svc.transactions \cup {Transaction(id, n, reverses)}]

\* DELETE /ledgers/{id}/transactions/{number}: "Archives a transaction by
\* creating a new transaction that reverses the effect of the archived
\* transaction."
ServeArchiveTransaction(svc, id, number) ==
    IF \E x \in svc.transactions : x.ledger = id /\ x.number = number
    THEN ServeCreateTransaction(svc, id, number)
    ELSE Answer(svc, 404, ErrorBody)

\* The service handles one request; fresh is the id it would give a ledger.
Handle(svc, request, fresh) ==
    LET m == request.method
        p == Route(request)
        id == IF Len(p) >= 4 THEN p[4] ELSE ""
        onLedger == /\ Len(p) >= 4
                    /\ SubSeq(p, 1, 3) = <<"/", "ledgers", "/">>
        sub == IF Len(p) >= 6 /\ p[5] = "/" THEN p[6] ELSE ""
        ledgerPaths == Len(p) >= 2 /\ SubSeq(p, 1, 2) = <<"/", "ledgers">>
    IN CASE ~ledgerPaths -> Answer(svc, 200, DocumentRequest)
         [] m = "POST" /\ Len(p) = 2 -> ServeCreateLedger(svc, fresh)
         [] onLedger /\ id \notin svc.ledgers -> Answer(svc, 404, ErrorBody)
         [] m = "DELETE" /\ onLedger /\ Len(p) = 4 -> ServeDeleteLedger(svc, id)
         [] m = "POST" /\ onLedger /\ Len(p) = 6 /\ sub = "accounts" ->
                ServeCreateAccount(svc, id, request)
         [] m = "POST" /\ onLedger /\ Len(p) = 6 /\ sub = "transactions" ->
                ServeCreateTransaction(svc, id, 0)
         [] m = "DELETE" /\ onLedger /\ Len(p) = 8 /\ sub = "transactions"
                /\ p[7] = "/" ->
                ServeArchiveTransaction(svc, id, NumberOf(p[8]))
         [] m = "GET" -> Answer(svc, 200, JObj(<<>>))
         [] OTHER -> Answer(svc, 404, ErrorBody)

\* The request of call c reaches the service: the service acts on it and
\* fetch resolves with the response's status line and headers.
Serve(c) ==
    /\ calls[c].pc = "fetch"
    /\ \E fresh \in LedgerIds :
          LET handled == Handle(service, calls[c].sent[1], fresh)
          IN /\ service' = [ledgers |-> handled.ledgers,
                            accounts |-> handled.accounts,
                            transactions |-> handled.transactions,
                            reply |-> [service.reply EXCEPT ![c] = handled.body]]
             /\ calls' = [calls EXCEPT ![c].pc = "body",
                              ![c].response = [status |-> handled.status,
                                               contentType |-> "application/json",
                                               body |-> <<>>, read |-> FALSE]]
    /\ UNCHANGED <<clients, ctor, qIn, qOut>>

(***************************************************************************)
(* SpecService: one caller of one client, one call at a time, against the  *)
(* ledger service.                                                         *)
(***************************************************************************)
ServiceInputs ==
    [ids |-> {<<id>> : id \in LedgerIds}, formats |-> {"json"},
     listParams |-> {JUndefined}, balanceParams |-> {JUndefined},
     documents |-> {DocumentRequest}, ledgerArgs |-> {JUndefined},
     accounts |-> {AccountRequest}, transactions |-> {TransactionRequest},
     numbers |-> TransactionNumbers]

NextService ==
    \/ constructor(1, <<"key-A">>, JUndefined)
    \/ Invoke(1, 1, ServiceInputs)
    \/ Serve(1)
    \/ FetchReject(1)
    \/ BodyResolve(1, service.reply[1])
    \/ Resume(1)

SpecService == Init /\ [][NextService]_vars

(***************************************************************************)
(* C11: no sequence of Client calls issues a PUT or PATCH request, and the *)
(* only DELETE requests are deleteLedger's on /ledgers/{id} and            *)
(* archiveLedgerTransaction's on /ledgers/{id}/transactions/{number}; none *)
(* is on /ledgers/{id}/accounts/...  A created account or transaction is   *)
(* removed by one client-initiated request only, deleteLedger, which       *)
(* removes the ledger with all its accounts and transactions; archiving    *)
(* removes nothing and only adds the reversing transaction.                *)
(***************************************************************************)
OnAccounts(request) ==
    LET p == Route(request)
    IN /\ Len(p) >= 6
       /\ SubSeq(p, 1, 3) = <<"/", "ledgers", "/">>
       /\ p[6] = "accounts"

NoForbiddenRequest ==
    \A c \in CallIds : \A i \in 1..Len(calls[c].sent) :
        LET request == calls[c].sent[i]
        IN /\ request.method \notin {"PUT", "PATCH"}
           /\ ~(request.method = "DELETE" /\ OnAccounts(request))

DeletesAreLedgerOrArchive ==
    \A c \in CallIds : \A i \in 1..Len(calls[c].sent) :
        LET request == calls[c].sent[i]
            ledger == <<"/", "ledgers", "/">> \o calls[c].args.id
        IN request.method = "DELETE" =>
              \/ /\ calls[c].op = "deleteLedger"
                 /\ Route(request) = ledger
              \/ /\ calls[c].op = "archiveLedgerTransaction"
                 /\ Route(request) =
                       ledger \o <<"/", "transactions", "/",
                                   ToString(calls[c].args.number)>>

\* The service acts on the request of call c in this step.
Served(c) == calls[c].pc = "fetch" /\ calls'[c].pc = "body"

DeletedWithLedger(ledger) ==
    \E c \in CallIds :
        /\ Served(c)
        /\ calls[c].op = "deleteLedger"
        /\ calls[c].args.id = <<ledger>>
        /\ ledger \in service.ledgers
        /\ ledger \notin service'.ledgers

RemovedOnlyWithLedger ==
    /\ \A a \in service.accounts \ service'.accounts : DeletedWithLedger(a.ledger)
    /\ \A x \in service.transactions \ service'.transactions :
          DeletedWithLedger(x.ledger)

ArchiveOnlyAdds ==
    \A c \in CallIds :
        (Served(c) /\ calls[c].op = "archiveLedgerTransaction") =>
            /\ service'.accounts = service.accounts
            /\ service.transactions \subseteq service'.transactions
            /\ Cardinality(service'.transactions \ service.transactions) <= 1
            /\ \A x \in service'.transactions \ service.transactions :
                  /\ <<x.ledger>> = calls[c].args.id
                  /\ x.reverses = calls[c].args.number
                  /\ \A y \in service.transactions :
                        y.ledger = x.ledger => y.number # x.number

====
